---- MODULE Spec2Model ----
(***************************************************************************)
(* Human Execution Protocol reference server (src/server/server.js).       *)
(*                                                                         *)
(* The server is a single Node.js process: every HTTP handler and every    *)
(* timer callback runs to completion on the event loop, so each is one     *)
(* atomic action here.  Time is counted in ticks; one second is            *)
(* TicksPerSecond ticks, which keeps sub-second instants visible.          *)
(***************************************************************************)
EXTENDS Integers, Sequences, FiniteSets, TLC

VARIABLES
    requests,     \* Map request_id -> request object            (line 38)
    timers,       \* armed setTimeout callbacks: request_id -> due tick
    now,          \* the wall clock read by new Date() / Date.now()
    published,    \* the calls of notifySubscribers so far, in order
    res,          \* the outcome of the operation that ran last
    inserted,     \* the keys of the requests Map in insertion order
    wsSubscriptions, \* Map request_id -> Set<ws>, a Set in insertion order (line 40)
    sockets,      \* the WebSocket connections: readyState, subscription, frames sent
    listed,       \* the array of the last listing response
    delegationRules, \* the delegationRules array                 (line 39)
    listQuery     \* req.query of the last GET /hxp/v1/requests

vars == <<requests, timers, now, published, res, inserted, wsSubscriptions, sockets, listed,
          delegationRules, listQuery>>

----------------------------------------------------------------------------
(* Bounds of the model *)

MaxTime == 4
TicksPerSecond == 2

(* JavaScript values *)

Null == "null"
Undefined == "undefined"
NoReceipt == [null |-> TRUE]           \* request.receipt === null

Truthy(v) == v /= Null /\ v /= Undefined /\ v /= ""
Default(v, d) == IF v = Undefined THEN d ELSE v
Includes(seq, v) == \E i \in 1..Len(seq) : seq[i] = v

----------------------------------------------------------------------------
(* Configuration and helpers, lines 27-115 *)

SERVER_SECRET == "hxp-dev-secret-change-me"
HUMAN_TOKENS == {"dev-human-token"}

VALID_ACTIONS == {"DECIDE", "APPROVE", "PROVIDE"}
VALID_ROLES == {"owner", "delegate", "pool"}
VALID_PRIORITIES == {"low", "normal", "high", "critical"}
VALID_FALLBACKS == {"pause", "fail", "default"}

MinOptions == 2
MaxOptions == 6

\* sha256 over the string `${requestId}:${JSON.stringify(result)}:${completedAt}:${SERVER_SECRET}`
\* is taken to be collision free: the digest is identified with the data hashed.
generateEvidenceHash(requestId, result, completedAt) ==
    <<requestId, result, completedAt, SERVER_SECRET>>

validatePayload(action, payload) ==
    CASE action = "DECIDE" ->
           IF ~Truthy(payload.question)
             THEN "DECIDE requires a question string in payload"
           ELSE IF Len(payload.options) < MinOptions \/ Len(payload.options) > MaxOptions
             THEN "DECIDE requires options array with 2-6 items"
           ELSE Null
      [] action = "APPROVE" ->
           IF ~Truthy(payload.item)
             THEN "APPROVE requires an item string in payload"
           ELSE Null
      [] action = "PROVIDE" ->
           IF ~Truthy(payload.prompt)
             THEN "PROVIDE requires a prompt string in payload"
           ELSE IF ~Truthy(payload.input_type)
             THEN "PROVIDE requires an input_type in payload"
           ELSE Null
      [] OTHER -> "Unknown action"

validateResult_DecideUnchecked(request, result) ==
    CASE request.action = "APPROVE" ->
           IF result \notin {"approved", "rejected"}
             THEN "Result must be approved or rejected"
           ELSE Null
      [] request.action = "PROVIDE" ->
           IF result = Null \/ result = Undefined \/ result = ""
             THEN "PROVIDE result cannot be empty"
           ELSE Null
      [] OTHER -> Null

validateResult(request, result) ==
    CASE request.action = "DECIDE" ->
           IF ~Includes(request.payload.options, result)
             THEN "Result must be one of the options"
           ELSE Null
      [] request.action = "APPROVE" ->
           IF result \notin {"approved", "rejected"}
             THEN "Result must be approved or rejected"
           ELSE Null
      [] request.action = "PROVIDE" ->
           IF result = Null \/ result = Undefined \/ result = ""
             THEN "PROVIDE result cannot be empty"
           ELSE Null
      [] OTHER -> Null

Range(seq) == {seq[i] : i \in 1..Len(seq)}

OPEN == 1                              \* ws.readyState of an open socket

\* ws.send(message): the frame is handed to the socket
wsSend(sock, message) == [sock EXCEPT !.frames = Append(@, message)]

\* the loop of lines 109-113 stopping at the first socket that is not open
deliver_StopAtFirstClosed(socks, subs, message) ==
    [w \in DOMAIN socks |->
        IF \E i \in 1..Len(subs) :
             /\ subs[i] = w
             /\ \A j \in 1..i : socks[subs[j]].readyState = OPEN
          THEN wsSend(socks[w], message)
          ELSE socks[w]]

\* the loop of lines 109-113 over the subscriber Set
deliver(socks, subs, message) ==
    [w \in DOMAIN socks |->
        IF w \in Range(subs) /\ socks[w].readyState = OPEN
          THEN wsSend(socks[w], message)
          ELSE socks[w]]

\* wsSubscriptions.get(requestId), the empty sequence when there is no entry
Subscribers(requestId) ==
    IF requestId \in DOMAIN wsSubscriptions THEN wsSubscriptions[requestId] ELSE <<>>

notifySubscribers_AlwaysCompleted(requestId, event) ==
    /\ published' = Append(published, [request_id |-> requestId, event |-> "completed",
                                       receipt |-> event.receipt])
    /\ sockets' = deliver(sockets, Subscribers(requestId), event)

\* notifySubscribers(requestId, event): one publication of `event` for
\* requestId, sent as a frame to every open subscriber.
notifySubscribers(requestId, event) ==
    /\ published' = Append(published, [request_id |-> requestId, event |-> event.event,
                                       receipt |-> event.receipt])
    /\ sockets' = deliver(sockets, Subscribers(requestId), event)

----------------------------------------------------------------------------
(* Inputs *)

RequestIds == {"hxp_1"}                \* the ids uuidv4 can draw

NoPayload ==
    [question |-> Undefined, options |-> <<>>, default_option |-> Undefined,
     item |-> Undefined, reject_requires_reason |-> FALSE,
     prompt |-> Undefined, input_type |-> Undefined]

DecidePayloads ==
    {[NoPayload EXCEPT !.question = q, !.options = o, !.default_option = d] :
        q \in {"Approve the plan?"},
        o \in {<<"Approve">>, <<"Approve", "Deny">>,
               <<"Approve", "Deny", "c", "d", "e", "f", "g">>},
        d \in {Undefined, "Deny", "Later"}}

ApprovePayloads ==
    {[NoPayload EXCEPT !.item = "Expense #1", !.reject_requires_reason = f,
                       !.default_option = d] :
        f \in BOOLEAN, d \in {Undefined, "approved"}}

ProvidePayloads ==
    {[NoPayload EXCEPT !.prompt = "API key?", !.input_type = t] :
        t \in {Undefined, "text"}}

Payloads == {NoPayload} \cup DecidePayloads \cup ApprovePayloads \cup ProvidePayloads

CreateBodies ==
    [action : VALID_ACTIONS \cup {"DELETE"},
     role : {Undefined, "admin"},
     priority : {Undefined},
     timeout_seconds : {0, 1},
     fallback : {Undefined, "fail", "default"},
     agent_id : {Undefined},
     project_id : {Undefined},
     metadata : {<<>>},
     payload : Payloads]

ResolveBodies ==
    [result : {Undefined, "Approve", "Deny", "Later", "approved", "rejected", ""},
     reason : {Undefined, "", "because"}]

----------------------------------------------------------------------------
(* State *)

Response(op, id, status, error) ==
    [op |-> op, id |-> id, status |-> status, error |-> error]

NoEventReceipt == [undefined |-> TRUE]  \* an event object without a receipt key

Init ==
    /\ requests = <<>>
    /\ timers = <<>>
    /\ now = 0
    /\ published = <<>>
    /\ res = Response("start", Null, 0, Null)
    /\ inserted = <<>>
    /\ wsSubscriptions = <<>>
    /\ sockets = <<>>
    /\ listed = <<>>
    /\ delegationRules = <<>>
    /\ listQuery = <<>>

Without(f, k) == [x \in DOMAIN f \ {k} |-> f[x]]

----------------------------------------------------------------------------
(* POST /hxp/v1/requests, lines 151-251 *)

createReject(body) ==
    IF body.action \notin VALID_ACTIONS THEN "invalid_action"
    ELSE IF Default(body.role, "owner") \notin VALID_ROLES THEN "invalid_role"
    ELSE IF validatePayload(body.action, body.payload) /= Null THEN "invalid_payload"
    ELSE Null

expiresAt(timeout_seconds, t) ==
    IF timeout_seconds > 0 THEN t + timeout_seconds * TicksPerSecond ELSE Null

\* t is the instant of new Date() at line 186, dateNow that of Date.now() at
\* line 188
newRequest(body, requestId, t, dateNow) ==
    [request_id |-> requestId,
     action |-> body.action,
     role |-> Default(body.role, "owner"),
     priority |-> Default(body.priority, "normal"),
     timeout_seconds |-> body.timeout_seconds,
     fallback |-> Default(body.fallback, "pause"),
     agent_id |-> IF Truthy(body.agent_id) THEN body.agent_id ELSE "unknown",
     project_id |-> IF Truthy(body.project_id) THEN body.project_id ELSE Null,
     metadata |-> body.metadata,
     payload |-> body.payload,
     status |-> "pending",
     created_at |-> t,
     expires_at |-> expiresAt(body.timeout_seconds, dateNow),
     receipt |-> NoReceipt]

armTimer_Always(body, requestId, t) ==
    timers @@ (requestId :> t + body.timeout_seconds * TicksPerSecond)

armTimer_Never(body, requestId, t) == timers

armTimer(body, requestId, t) ==
    IF body.timeout_seconds > 0
      THEN timers @@ (requestId :> t + body.timeout_seconds * TicksPerSecond)
      ELSE timers

\* requestId is the id uuidv4 draws when the body is accepted: a fresh one.
\* The handler reads the clock for created_at and, after drawing the id, again
\* for expires_at; the timer is armed after that second read.
Create(body, requestId) ==
    IF createReject(body) /= Null
      THEN /\ res' = Response("create", Null, 400, createReject(body))
           /\ UNCHANGED <<delegationRules, listQuery, requests, timers, now, published, inserted,
                          wsSubscriptions, sockets, listed>>
      ELSE /\ requestId \notin DOMAIN requests
           /\ \E dateNow \in {now, now + 1} :
                /\ dateNow <= MaxTime
                /\ dateNow > now => body.timeout_seconds > 0
                /\ requests' = requests @@
                                 (requestId :> newRequest(body, requestId, now, dateNow))
                /\ timers' = armTimer(body, requestId, dateNow)
                /\ now' = dateNow
           /\ inserted' = Append(inserted, requestId)
           /\ res' = Response("create", requestId, 201, Null)
           /\ UNCHANGED <<delegationRules, listQuery, published, wsSubscriptions, sockets,
                          listed>>

----------------------------------------------------------------------------
(* The setTimeout callback, lines 213-235 *)

\* line 223; the dash of the source text is written as a hyphen here
TimeoutReason == "Timeout - default option applied"

defaultApplies_AnyAction(req) ==
    /\ req.fallback = "default"
    /\ Truthy(req.payload.default_option)

defaultApplies(req) ==
    /\ req.fallback = "default"
    /\ req.action = "DECIDE"
    /\ Truthy(req.payload.default_option)

\* The callback reads the clock twice: completedAt for completed_at, hashedAt
\* for the timestamp given to generateEvidenceHash.
timeoutReceipt_FirstOption(req, completedAt, hashedAt) ==
    [request_id |-> req.request_id,
     status |-> "completed",
     result |-> req.payload.options[1],
     reason |-> TimeoutReason,
     completed_by |-> "system",
     completed_at |-> completedAt,
     duration_seconds |-> req.timeout_seconds,
     evidence_hash |-> generateEvidenceHash(req.request_id, req.payload.options[1], hashedAt)]

timeoutReceipt(req, completedAt, hashedAt) ==
    [request_id |-> req.request_id,
     status |-> "completed",
     result |-> req.payload.default_option,
     reason |-> TimeoutReason,
     completed_by |-> "system",
     completed_at |-> completedAt,
     duration_seconds |-> req.timeout_seconds,
     evidence_hash |-> generateEvidenceHash(req.request_id, req.payload.default_option, hashedAt)]

\* a callback that fails the request when the fallback is fail
timeoutTransition_FailFails(req, completedAt, hashedAt) ==
    IF defaultApplies(req)
      THEN [req EXCEPT !.status = "completed",
                       !.receipt = timeoutReceipt(req, completedAt, hashedAt)]
      ELSE [req EXCEPT !.status = IF req.fallback = "fail" THEN "failed" ELSE "expired"]

timeoutTransition(req, completedAt, hashedAt) ==
    IF defaultApplies(req)
      THEN [req EXCEPT !.status = "completed",
                       !.receipt = timeoutReceipt(req, completedAt, hashedAt)]
      ELSE [req EXCEPT !.status = "expired"]

timeoutActs_Always(req) == TRUE

timeoutActs(req) == req.status = "pending"

\* a callback that closes over a variable shared by all creates: it acts on
\* the request created last, whichever timer fires
TimeoutFire_LastCreated(requestId) ==
    /\ requestId \in DOMAIN timers
    /\ now >= timers[requestId]
    /\ timers' = Without(timers, requestId)
    /\ res' = Response("timeout", requestId, 0, Null)
    /\ UNCHANGED <<delegationRules, listQuery, inserted, wsSubscriptions, listed, now>>
    /\ LET last == inserted[Len(inserted)] IN
       IF timeoutActs(requests[last])
         THEN LET req == timeoutTransition(requests[last], now, now) IN
              /\ requests' = [requests EXCEPT ![last] = req]
              /\ notifySubscribers(last, [event |-> req.status, receipt |-> req.receipt])
         ELSE UNCHANGED <<requests, published, sockets>>

TimeoutFire(requestId) ==
    /\ requestId \in DOMAIN timers
    /\ now >= timers[requestId]
    /\ timers' = Without(timers, requestId)
    /\ res' = Response("timeout", requestId, 0, Null)
    /\ UNCHANGED <<delegationRules, listQuery, inserted, wsSubscriptions, listed>>
    /\ IF requestId \in DOMAIN requests /\ timeoutActs(requests[requestId])
         THEN \E hashedAt \in {now, now + 1} :
                LET req == timeoutTransition(requests[requestId], now, hashedAt) IN
                /\ hashedAt <= MaxTime
                /\ hashedAt > now => defaultApplies(requests[requestId])
                /\ requests' = [requests EXCEPT ![requestId] = req]
                /\ notifySubscribers(requestId,
                                     [event |-> req.status, receipt |-> req.receipt])
                /\ now' = hashedAt
         ELSE UNCHANGED <<delegationRules, listQuery, requests, published, sockets, now>>

----------------------------------------------------------------------------
(* POST /hxp/v1/requests/:id/cancel, lines 282-293 *)

cancelReject_PendingOrCompleted(request) ==
    IF request.status \notin {"pending", "assigned", "completed"}
      THEN "conflict"
      ELSE Null

cancelReject_PendingOrExpired(request) ==
    IF request.status \notin {"pending", "assigned", "expired"}
      THEN "conflict"
      ELSE Null

cancelReject_Never(request) == Null

cancelReject(request) ==
    IF request.status /= "pending" /\ request.status /= "assigned"
      THEN "conflict"
      ELSE Null

Cancel(id) ==
    IF id \notin DOMAIN requests
      THEN /\ res' = Response("cancel", id, 404, "not_found")
           /\ UNCHANGED <<delegationRules, listQuery, requests, timers, now, published, inserted,
                          wsSubscriptions, sockets, listed>>
    ELSE IF cancelReject(requests[id]) /= Null
      THEN /\ res' = Response("cancel", id, 409, cancelReject(requests[id]))
           /\ UNCHANGED <<delegationRules, listQuery, requests, timers, now, published, inserted,
                          wsSubscriptions, sockets, listed>>
    ELSE /\ requests' = [requests EXCEPT ![id].status = "cancelled"]
         /\ notifySubscribers(id, [event |-> "cancelled", receipt |-> NoEventReceipt])
         /\ res' = Response("cancel", id, 200, Null)
         /\ UNCHANGED <<delegationRules, listQuery, timers, now, inserted, wsSubscriptions, listed>>

----------------------------------------------------------------------------
(* POST /hxp/v1/requests/:id/resolve, lines 325-386 *)

Accepted == [status |-> 200, error |-> Null]

resolveReject_NoExpiredCheck(request, body) ==
    IF request.status = "completed" \/ request.status = "cancelled"
      THEN [status |-> 409, error |-> "conflict"]
    ELSE IF body.result = Undefined \/ body.result = Null
      THEN [status |-> 400, error |-> "missing_result"]
    ELSE IF validateResult(request, body.result) /= Null
      THEN [status |-> 422, error |-> "invalid_result"]
    ELSE IF /\ request.action = "APPROVE"
            /\ body.result = "rejected"
            /\ request.payload.reject_requires_reason
            /\ ~Truthy(body.reason)
      THEN [status |-> 422, error |-> "reason_required"]
    ELSE Accepted

resolveReject_NoReasonCheck(request, body) ==
    IF request.status = "completed" \/ request.status = "cancelled"
      THEN [status |-> 409, error |-> "conflict"]
    ELSE IF request.status = "expired"
      THEN [status |-> 409, error |-> "expired"]
    ELSE IF body.result = Undefined \/ body.result = Null
      THEN [status |-> 400, error |-> "missing_result"]
    ELSE IF validateResult(request, body.result) /= Null
      THEN [status |-> 422, error |-> "invalid_result"]
    ELSE Accepted

resolveReject(request, body) ==
    IF request.status = "completed" \/ request.status = "cancelled"
      THEN [status |-> 409, error |-> "conflict"]
    ELSE IF request.status = "expired"
      THEN [status |-> 409, error |-> "expired"]
    ELSE IF body.result = Undefined \/ body.result = Null
      THEN [status |-> 400, error |-> "missing_result"]
    ELSE IF validateResult(request, body.result) /= Null
      THEN [status |-> 422, error |-> "invalid_result"]
    ELSE IF /\ request.action = "APPROVE"
            /\ body.result = "rejected"
            /\ request.payload.reject_requires_reason
            /\ ~Truthy(body.reason)
      THEN [status |-> 422, error |-> "reason_required"]
    ELSE Accepted

durationSeconds_Floor(createdAt, completedAt) ==
    (completedAt - createdAt) \div TicksPerSecond

\* Math.round((completedAt - created_at) / 1000) on instants counted in ticks
durationSeconds(createdAt, completedAt) ==
    (2 * (completedAt - createdAt) + TicksPerSecond) \div (2 * TicksPerSecond)

resolveReceipt(request, body, humanId, completedAt) ==
    [request_id |-> request.request_id,
     status |-> "completed",
     result |-> body.result,
     reason |-> IF Truthy(body.reason) THEN body.reason ELSE Null,
     completed_by |-> humanId,
     completed_at |-> completedAt,
     duration_seconds |-> durationSeconds(request.created_at, completedAt),
     evidence_hash |-> generateEvidenceHash(request.request_id, body.result, completedAt)]

resolveTransition_StatusOnly(request, receipt) ==
    [request EXCEPT !.status = "completed"]

resolveTransition(request, receipt) ==
    [request EXCEPT !.status = "completed", !.receipt = receipt]

\* a resolve that stores the receipt before it validates the body
Resolve_WriteBeforeValidation(id, body, humanId) ==
    IF id \notin DOMAIN requests
      THEN /\ res' = Response("resolve", id, 404, "not_found")
           /\ UNCHANGED <<delegationRules, listQuery, requests, timers, now, published, inserted,
                          wsSubscriptions, sockets, listed>>
    ELSE IF resolveReject(requests[id], body).status = 409
      THEN LET e == resolveReject(requests[id], body) IN
           /\ res' = Response("resolve", id, e.status, e.error)
           /\ UNCHANGED <<delegationRules, listQuery, requests, timers, now, published, inserted,
                          wsSubscriptions, sockets, listed>>
    ELSE LET receipt == resolveReceipt(requests[id], body, humanId, now)
             e == resolveReject(requests[id], body) IN
         /\ requests' = [requests EXCEPT ![id] = resolveTransition(requests[id], receipt)]
         /\ notifySubscribers(id, [event |-> "completed", receipt |-> receipt])
         /\ res' = Response("resolve", id, e.status, e.error)
         /\ UNCHANGED <<delegationRules, listQuery, timers, now, inserted, wsSubscriptions, listed>>

Resolve(id, body, humanId) ==
    IF id \notin DOMAIN requests
      THEN /\ res' = Response("resolve", id, 404, "not_found")
           /\ UNCHANGED <<delegationRules, listQuery, requests, timers, now, published, inserted,
                          wsSubscriptions, sockets, listed>>
    ELSE IF resolveReject(requests[id], body) /= Accepted
      THEN LET e == resolveReject(requests[id], body) IN
           /\ res' = Response("resolve", id, e.status, e.error)
           /\ UNCHANGED <<delegationRules, listQuery, requests, timers, now, published, inserted,
                          wsSubscriptions, sockets, listed>>
    ELSE LET receipt == resolveReceipt(requests[id], body, humanId, now) IN
         /\ requests' = [requests EXCEPT ![id] = resolveTransition(requests[id], receipt)]
         /\ notifySubscribers(id, [event |-> "completed", receipt |-> receipt])
         /\ res' = Response("resolve", id, 200, Null)
         /\ UNCHANGED <<delegationRules, listQuery, timers, now, inserted, wsSubscriptions, listed>>

----------------------------------------------------------------------------
(* WebSocket handling, lines 440-464 *)

Sockets == {"ws1", "ws2"}              \* the connections a run can open

\* wsSubscriptions.set(requestId, new Set()) when missing, then .add(ws)
subscribe(subs, requestId, ws) ==
    IF requestId \in DOMAIN subs
      THEN [subs EXCEPT ![requestId] = IF ws \in Range(@) THEN @ ELSE Append(@, ws)]
      ELSE subs @@ (requestId :> <<ws>>)

unsubscribe_Never(subs, requestId, ws) == subs

\* the close listener, lines 450-456
unsubscribe(subs, requestId, ws) ==
    IF requestId \notin DOMAIN subs
      THEN subs
      ELSE LET rest == SelectSeq(subs[requestId], LAMBDA w : w /= ws) IN
           IF Len(rest) = 0
             THEN Without(subs, requestId)
             ELSE [subs EXCEPT ![requestId] = rest]

catchUp_Never(requestId) == FALSE

\* request && request.receipt, line 460
catchUp(requestId) ==
    requestId \in DOMAIN requests /\ requests[requestId].receipt /= NoReceipt

\* requestId is the request_id query parameter, Null when the URL has none
Connect(ws, requestId) ==
    /\ ws \notin DOMAIN sockets
    /\ LET sock == [readyState |-> OPEN, request_id |-> requestId, frames |-> <<>>] IN
       IF ~Truthy(requestId)
         THEN /\ sockets' = sockets @@ (ws :> sock)
              /\ UNCHANGED wsSubscriptions
         ELSE /\ wsSubscriptions' = subscribe(wsSubscriptions, requestId, ws)
              /\ sockets' = sockets @@ (ws :>
                    IF catchUp(requestId)
                      THEN wsSend(sock, [event |-> "completed",
                                         receipt |-> requests[requestId].receipt])
                      ELSE sock)
    /\ res' = Response("connect", requestId, 101, Null)
    /\ UNCHANGED <<delegationRules, listQuery, requests, timers, now, published, inserted, listed>>

\* the closing handshake starts: readyState is CLOSING (2) until the close event
BeginClose(ws) ==
    /\ ws \in DOMAIN sockets
    /\ sockets[ws].readyState = OPEN
    /\ sockets' = [sockets EXCEPT ![ws].readyState = 2]
    /\ UNCHANGED <<delegationRules, listQuery, requests, timers, now, published, res, inserted, wsSubscriptions, listed>>

\* the close event: readyState is CLOSED (3) and the close listener runs
Close(ws) ==
    /\ ws \in DOMAIN sockets
    /\ sockets[ws].readyState \in {OPEN, 2}
    /\ sockets' = [sockets EXCEPT ![ws].readyState = 3]
    /\ wsSubscriptions' =
         IF Truthy(sockets[ws].request_id)
           THEN unsubscribe(wsSubscriptions, sockets[ws].request_id, ws)
           ELSE wsSubscriptions
    /\ UNCHANGED <<delegationRules, listQuery, requests, timers, now, published, res, inserted, listed>>

----------------------------------------------------------------------------
(* GET /hxp/v1/inbox, lines 300-322 *)

\* Array.from(requests.values()): the requests in insertion order
requestValues == [i \in 1..Len(inserted) |-> requests[inserted[i]]]

priorityOrder == [critical |-> 0, high |-> 1, normal |-> 2, low |-> 3]

\* (priorityOrder[p] || 2): a missing entry and the entry 0 are both falsy
priorityRank(p) ==
    IF p \in DOMAIN priorityOrder /\ priorityOrder[p] /= 0 THEN priorityOrder[p] ELSE 2

inboxCompare(a, b) ==
    LET pDiff == priorityRank(a.priority) - priorityRank(b.priority) IN
    IF pDiff /= 0 THEN pDiff ELSE b.created_at - a.created_at

\* results.sort(...): Array.prototype.sort is stable, and a negative value of
\* the comparator puts its first argument first
sortResults(results) ==
    LET n == Len(results)
        pos(i) == 1 + Cardinality({j \in 1..n :
                        \/ inboxCompare(results[j], results[i]) < 0
                        \/ inboxCompare(results[j], results[i]) = 0 /\ j < i})
    IN  [k \in 1..n |-> results[CHOOSE i \in 1..n : pos(i) = k]]

inboxResults(query) ==
    LET status == Default(query.status, "pending")
        byStatus == SelectSeq(requestValues,
                        LAMBDA r : r.status = status \/ r.status = "assigned")
        byPriority == IF Truthy(query.priority)
                        THEN SelectSeq(byStatus, LAMBDA r : r.priority = query.priority)
                        ELSE byStatus
        byAction == IF Truthy(query.action)
                      THEN SelectSeq(byPriority, LAMBDA r : r.action = query.action)
                      ELSE byPriority
    IN  sortResults(byAction)

Inbox(query) ==
    /\ listed' = inboxResults(query)
    /\ res' = Response("inbox", Null, 200, Null)
    /\ UNCHANGED <<delegationRules, listQuery, requests, timers, now, published, inserted, wsSubscriptions, sockets>>

----------------------------------------------------------------------------
(* GET /hxp/v1/requests, lines 254-267 *)

DefaultLimit == 20                     \* limit = 20, line 255

\* new Date(b.created_at) - new Date(a.created_at)
listCompare(a, b) == b.created_at - a.created_at

\* results.sort(...) of line 262: stable
sortListed(results) ==
    LET n == Len(results)
        pos(i) == 1 + Cardinality({j \in 1..n :
                        \/ listCompare(results[j], results[i]) < 0
                        \/ listCompare(results[j], results[i]) = 0 /\ j < i})
    IN  [k \in 1..n |-> results[CHOOSE i \in 1..n : pos(i) = k]]

slice_All(results, end) == results

\* results.slice(0, end): a negative end counts from the end of the array
slice(results, end) ==
    LET last == IF end < 0 THEN Len(results) + end ELSE end IN
    SubSeq(results, 1, IF last > Len(results) THEN Len(results)
                       ELSE IF last < 0 THEN 0 ELSE last)

\* parseInt on the decimal strings a query carries here
parseInt(v) == CHOOSE n \in -9..9 : ToString(n) = v

\* const { limit = 20 } = req.query, then parseInt(limit)
limitOf(query) ==
    IF query.limit = Undefined THEN DefaultLimit ELSE parseInt(query.limit)

listResults(query) ==
    LET byAgent == IF Truthy(query.agent_id)
                     THEN SelectSeq(requestValues, LAMBDA r : r.agent_id = query.agent_id)
                     ELSE requestValues
        byProject == IF Truthy(query.project_id)
                       THEN SelectSeq(byAgent, LAMBDA r : r.project_id = query.project_id)
                       ELSE byAgent
        byStatus == IF Truthy(query.status)
                      THEN SelectSeq(byProject, LAMBDA r : r.status = query.status)
                      ELSE byProject
    IN  slice(sortListed(byStatus), limitOf(query))

List(query) ==
    /\ listed' = listResults(query)
    /\ listQuery' = query
    /\ res' = Response("list", Null, 200, Null)
    /\ UNCHANGED <<requests, timers, now, published, inserted, wsSubscriptions,
                   sockets, delegationRules>>

----------------------------------------------------------------------------
(* GET and POST /hxp/v1/delegation/rules, lines 392-402 *)

MaxRules == 3                          \* the rules a run adds at most

push_Unshift(rules, rule) == <<rule>> \o rules

\* delegationRules.push(rule)
push(rules, rule) == Append(rules, rule)

\* rule is req.body, stored as sent
AddRule(rule) ==
    /\ Len(delegationRules) < MaxRules
    /\ delegationRules' = push(delegationRules, rule)
    /\ res' = Response("add_rule", Null, 201, Null)
    /\ UNCHANGED <<requests, timers, now, published, inserted, wsSubscriptions,
                   sockets, listed, listQuery>>

GetRules ==
    /\ listed' = delegationRules
    /\ res' = Response("get_rules", Null, 200, Null)
    /\ UNCHANGED <<requests, timers, now, published, inserted, wsSubscriptions,
                   sockets, delegationRules, listQuery>>

----------------------------------------------------------------------------
(* The clock *)

Tick ==
    /\ now < MaxTime
    /\ now' = now + 1
    /\ UNCHANGED <<delegationRules, listQuery, requests, timers, published, res, inserted,
                   wsSubscriptions, sockets, listed>>

----------------------------------------------------------------------------

Next ==
    \/ \E id \in RequestIds \ DOMAIN requests, body \in CreateBodies : Create(body, id)
    \/ \E id \in RequestIds : TimeoutFire(id)
    \/ \E id \in RequestIds : Cancel(id)
    \/ \E id \in RequestIds, body \in ResolveBodies, h \in HUMAN_TOKENS : Resolve(id, body, h)
    \/ Tick

Spec == Init /\ [][Next]_vars

(* The server fed create bodies whose fields lie outside the enumerations *)

FieldsCreateBodies ==
    [action : {"APPROVE", "DELETE"},
     role : {Undefined, "admin"},
     priority : {Undefined, "urgent"},
     timeout_seconds : {-1, 0, 1},
     fallback : {Undefined, "retry"},
     agent_id : {Undefined},
     project_id : {Undefined},
     metadata : {<<>>},
     payload : {[NoPayload EXCEPT !.item = "Expense #1"]}]

FieldsResolveBodies == {b \in ResolveBodies : b.result \in {"approved", "Later"} /\ b.reason = Undefined}

NextFields ==
    \/ \E id \in RequestIds \ DOMAIN requests, body \in FieldsCreateBodies : Create(body, id)
    \/ \E id \in RequestIds : TimeoutFire(id)
    \/ \E id \in RequestIds : Cancel(id)
    \/ \E id \in RequestIds, body \in FieldsResolveBodies, h \in HUMAN_TOKENS : Resolve(id, body, h)
    \/ Tick

SpecFields == Init /\ [][NextFields]_vars

(* The server with delegation rules and requests for a delegate *)

Rules ==
    {[action |-> "APPROVE", tag |-> "finance", project_id |-> Undefined, delegate_to |-> "user_789"],
     [action |-> "DECIDE", tag |-> Undefined, project_id |-> "project_beta", delegate_to |-> "user_012"],
     [action |-> "APPROVE", tag |-> Undefined, project_id |-> "project_beta", delegate_to |-> "user_012"]}

RulesCreateBodies ==
    [action : {"APPROVE"},
     role : {Undefined, "delegate"},
     priority : {Undefined},
     timeout_seconds : {0},
     fallback : {Undefined},
     agent_id : {Undefined},
     project_id : {Undefined, "project_beta"},
     metadata : {<<>>, [tag |-> "finance"]},
     payload : {[NoPayload EXCEPT !.item = "Expense #1"]}]

NextRules ==
    \/ \E rule \in Rules : AddRule(rule)
    \/ GetRules
    \/ \E id \in RequestIds \ DOMAIN requests, body \in RulesCreateBodies : Create(body, id)
    \/ \E id \in RequestIds : Cancel(id)

SpecRules == Init /\ [][NextRules]_vars

(* The human inbox over two requests of differing priority *)

InboxIds == {"hxp_1", "hxp_2"}

InboxCreateBodies ==
    [action : {"APPROVE"},
     role : {Undefined},
     priority : {Undefined, "low", "high", "critical"},
     timeout_seconds : {0},
     fallback : {Undefined},
     agent_id : {Undefined},
     project_id : {Undefined},
     metadata : {<<>>},
     payload : {[NoPayload EXCEPT !.item = "Expense #1"]}]

InboxQueries ==
    [status : {Undefined, "cancelled"},
     priority : {Undefined, "high"},
     action : {Undefined, "DECIDE"}]

NextInbox ==
    \/ \E id \in InboxIds \ DOMAIN requests, body \in InboxCreateBodies : Create(body, id)
    \/ \E id \in InboxIds : Cancel(id)
    \/ \E query \in InboxQueries : Inbox(query)
    \/ Tick

SpecInbox == Init /\ [][NextInbox]_vars

(* The agent listing over two requests *)

ListCreateBodies ==
    {b \in [action : {"APPROVE"},
            role : {Undefined},
            priority : {Undefined},
            timeout_seconds : {0},
            fallback : {Undefined},
            agent_id : {Undefined, "agent_a"},
            project_id : {Undefined, "project_beta"},
            metadata : {<<>>},
            payload : {[NoPayload EXCEPT !.item = "Expense #1"]}] :
       b.project_id = Undefined \/ b.agent_id /= Undefined}

NoFilter == [agent_id |-> Undefined, project_id |-> Undefined, status |-> Undefined,
             limit |-> Undefined]

ListQueries ==
    {NoFilter,
     [NoFilter EXCEPT !.agent_id = "agent_a"],
     [NoFilter EXCEPT !.project_id = "project_beta"],
     [NoFilter EXCEPT !.status = "pending"],
     [NoFilter EXCEPT !.agent_id = "agent_a", !.status = "pending", !.limit = "1"],
     [NoFilter EXCEPT !.limit = "1"],
     [NoFilter EXCEPT !.limit = "-1"]}

NextList ==
    \/ \E id \in InboxIds \ DOMAIN requests, body \in ListCreateBodies : Create(body, id)
    \/ \E id \in InboxIds : Cancel(id)
    \/ \E query \in ListQueries : List(query)
    \/ Tick

SpecList == Init /\ [][NextList]_vars

(* The server with live subscribers: one request, two connections *)

WsCreateBodies ==
    {b \in CreateBodies :
        /\ b.action = "DECIDE"
        /\ b.role = Undefined
        /\ b.fallback \in {Undefined, "default"}
        /\ b.payload.options = <<"Approve", "Deny">>
        /\ b.payload.default_option = "Deny"}

WsResolveBodies == {b \in ResolveBodies : b.result \in {"Approve", "Later"} /\ b.reason = Undefined}

NextWs ==
    \/ \E id \in RequestIds \ DOMAIN requests, body \in WsCreateBodies : Create(body, id)
    \/ \E id \in RequestIds : TimeoutFire(id)
    \/ \E id \in RequestIds : Cancel(id)
    \/ \E id \in RequestIds, body \in WsResolveBodies, h \in HUMAN_TOKENS : Resolve(id, body, h)
    \/ \E ws \in Sockets, id \in RequestIds \cup {Null} : Connect(ws, id)
    \/ \E ws \in Sockets : BeginClose(ws)
    \/ \E ws \in Sockets : Close(ws)
    \/ Tick

SpecWs == Init /\ [][NextWs]_vars

(* Two requests side by side *)

PairIds == {"hxp_1", "hxp_2"}

PairCreateBodies ==
    {b \in WsCreateBodies : b.fallback = "default" /\ b.timeout_seconds \in {0, 1}}

NextPair ==
    \/ \E id \in PairIds \ DOMAIN requests, body \in PairCreateBodies : Create(body, id)
    \/ \E id \in PairIds : TimeoutFire(id)
    \/ \E id \in PairIds : Cancel(id)
    \/ \E id \in PairIds, body \in WsResolveBodies, h \in HUMAN_TOKENS : Resolve(id, body, h)
    \/ Tick

SpecPair == Init /\ [][NextPair]_vars

(* The server under fair scheduling: an armed timer that is due fires, and  *)
(* the clock moves on.  A request is created only if its timer falls due   *)
(* within the instants the model counts.                                   *)

LiveCreateBodies ==
    {b \in CreateBodies :
        /\ b.action = "APPROVE"
        /\ b.role = Undefined
        /\ b.payload.default_option = Undefined
        /\ ~b.payload.reject_requires_reason}

LiveResolveBodies == {b \in ResolveBodies : b.result \in {"approved", "Later"} /\ b.reason = Undefined}

NextLive ==
    \/ \E id \in RequestIds \ DOMAIN requests, body \in LiveCreateBodies :
         /\ Create(body, id)
         /\ \A i \in DOMAIN timers' : timers'[i] <= MaxTime
    \/ \E id \in RequestIds : TimeoutFire(id)
    \/ \E id \in RequestIds : Cancel(id)
    \/ \E id \in RequestIds, body \in LiveResolveBodies, h \in HUMAN_TOKENS : Resolve(id, body, h)
    \/ Tick

SpecLive ==
    /\ Init
    /\ [][NextLive]_vars
    /\ WF_vars(Tick)
    /\ \A id \in RequestIds : WF_vars(TimeoutFire(id))

----------------------------------------------------------------------------
(* Properties of the request lifecycle *)

Stored == DOMAIN requests
HasReceipt(r) == r.receipt /= NoReceipt
EventsOf(id) == {i \in 1..Len(published) : published[i].request_id = id}
\* a timer callback that finds its request pending with fallback f
FiresOnPending(id, f) ==
    /\ id \in Stored
    /\ requests[id].status = "pending"
    /\ requests[id].fallback = f
    /\ TimeoutFire(id)

\* C1: in every reachable state every stored request has a receipt exactly
\* when its status is completed.
ReceiptIffCompleted ==
    \A id \in Stored : HasReceipt(requests[id]) <=> requests[id].status = "completed"

ReceiptIffCompleted_Witness ==
    \E id \in Stored :
        /\ requests[id].status = "completed"
        /\ HasReceipt(requests[id])
        /\ res.op = "resolve" /\ res.status = 200

\* C2: of the resolve, cancel and timer-fire operations racing on one request
\* exactly one commits: a request that left pending has exactly one published
\* transition, and every later resolve, cancel or timer fire leaves the stored
\* request and the publications as they are, resolve and cancel answering 409.
OneMutationCommits ==
    /\ [](\A id \in Stored :
            Cardinality(EventsOf(id)) = IF requests[id].status = "pending" THEN 0 ELSE 1)
    /\ [][\A id \in Stored :
            requests[id].status /= "pending" =>
              /\ requests'[id] = requests[id]
              /\ published' = published
              /\ cancelReject(requests[id]) /= Null
              /\ \A body \in ResolveBodies : resolveReject(requests[id], body).status = 409
              /\ (res' /= res /\ res'.id = id) => res'.status \in {0, 409}]_vars

OneMutationCommits_Witness ==
    \E id \in Stored :
        /\ requests[id].status = "completed"
        /\ requests[id].receipt.result = "Approve"
        /\ id \in DOMAIN timers
        /\ res = Response("resolve", id, 409, "conflict")

\* C3: a request whose status is completed, cancelled or failed keeps its
\* status and its receipt in every later step, and a resolve or cancel of it
\* answers 409 conflict.
TerminalIsImmutable ==
    [][\A id \in Stored :
         requests[id].status \in {"completed", "cancelled", "failed"} =>
           /\ requests'[id].status = requests[id].status
           /\ requests'[id].receipt = requests[id].receipt
           /\ cancelReject(requests[id]) = "conflict"
           /\ \A body \in ResolveBodies :
                resolveReject(requests[id], body) = [status |-> 409, error |-> "conflict"]
           /\ (res' /= res /\ res'.op \in {"resolve", "cancel"}) =>
                res'.status = 409 /\ res'.error = "conflict"]_vars

TerminalIsImmutable_Witness ==
    \E id \in Stored :
        /\ requests[id].status = "completed"
        /\ HasReceipt(requests[id])
        /\ res = Response("cancel", id, 409, "conflict")

\* C4: when the timer of a pending request with fallback fail fires, the
\* request becomes failed and has no receipt.
FailFallbackFails ==
    [][\A id \in RequestIds :
         FiresOnPending(id, "fail") =>
           requests'[id].status = "failed" /\ ~HasReceipt(requests'[id])]_vars

\* C5: when the timer of a pending request with fallback pause fires, the
\* request stays as it is and nothing is published.
PauseFallbackIsNoOp ==
    [][\A id \in RequestIds :
         FiresOnPending(id, "pause") =>
           requests'[id] = requests[id] /\ published' = published]_vars

\* C6: when the timer of a pending DECIDE request with fallback default and a
\* default_option fires, that step completes the request with a receipt whose
\* result is the default_option, completed by "system" with the timeout reason.
DefaultFallbackCompletes ==
    [][\A id \in RequestIds :
         (/\ FiresOnPending(id, "default")
          /\ requests[id].action = "DECIDE"
          /\ requests[id].payload.default_option /= Undefined) =>
           /\ requests'[id].status = "completed"
           /\ HasReceipt(requests'[id])
           /\ requests'[id].receipt.result = requests[id].payload.default_option
           /\ requests'[id].receipt.completed_by = "system"
           /\ requests'[id].receipt.reason = TimeoutReason]_vars

DefaultFallbackCompletes_Witness ==
    \E id \in Stored :
        /\ requests[id].action = "DECIDE"
        /\ requests[id].fallback = "default"
        /\ requests[id].status = "completed"
        /\ requests[id].receipt.completed_by = "system"
        /\ requests[id].receipt.result = "Deny"
        /\ res.op = "timeout"

\* C7: when the timer of a pending request with fallback default fires and the
\* action is not DECIDE or there is no default_option, the request becomes
\* expired without a receipt and no error is reported.
InapplicableDefaultExpires ==
    [][\A id \in RequestIds :
         (/\ FiresOnPending(id, "default")
          /\ \/ requests[id].action /= "DECIDE"
             \/ requests[id].payload.default_option = Undefined) =>
           /\ requests'[id].status = "expired"
           /\ ~HasReceipt(requests'[id])
           /\ res'.error = Null]_vars

InapplicableDefaultExpires_Witness ==
    \E id \in Stored :
        /\ requests[id].fallback = "default"
        /\ requests[id].action = "APPROVE"
        /\ requests[id].payload.default_option = "approved"
        /\ requests[id].status = "expired"
        /\ res.op = "timeout"

\* C8: a request created with timeout_seconds 0 has no timer, and its status
\* changes only in a resolve or a cancel step, never in a timer callback.
NoTimeoutNeverFires ==
    /\ [](\A id \in Stored : requests[id].timeout_seconds = 0 => id \notin DOMAIN timers)
    /\ [][\A id \in Stored :
            (requests[id].timeout_seconds = 0 /\ requests'[id].status /= requests[id].status) =>
              /\ requests[id].status = "pending"
              /\ res'.op \in {"resolve", "cancel"}
              /\ res' = Response(res'.op, id, 200, Null)]_vars

NoTimeoutNeverFires_Witness ==
    \E id \in Stored :
        /\ requests[id].timeout_seconds = 0
        /\ requests[id].created_at = 0
        /\ now > TicksPerSecond
        /\ requests[id].status = "pending"

\* C9: a request whose stored status is expired stays expired, without a
\* receipt, in every later step.
ExpiredStaysExpired ==
    [][\A id \in Stored :
         requests[id].status = "expired" =>
           requests'[id].status = "expired" /\ ~HasReceipt(requests'[id])]_vars

ExpiredStaysExpired_Witness ==
    \E id \in Stored :
        /\ requests[id].status = "expired"
        /\ res = Response("resolve", id, 409, "expired")

\* C10: a resolve of a pending DECIDE request that carries a result answers 422
\* invalid_result and changes nothing when the result is none of the options,
\* and completes the request with that result in the receipt when it is one.
DecideResultMustBeOption ==
    [][\A id \in Stored, body \in ResolveBodies, h \in HUMAN_TOKENS :
         (/\ requests[id].status = "pending"
          /\ requests[id].action = "DECIDE"
          /\ body.result /= Undefined
          /\ Resolve(id, body, h)) =>
           IF Includes(requests[id].payload.options, body.result)
             THEN /\ res' = Response("resolve", id, 200, Null)
                  /\ requests'[id].status = "completed"
                  /\ requests'[id].receipt.result = body.result
             ELSE /\ res' = Response("resolve", id, 422, "invalid_result")
                  /\ requests' = requests]_vars

DecideResultMustBeOption_Witness ==
    \E id \in Stored :
        /\ requests[id].action = "DECIDE"
        /\ requests[id].status = "pending"
        /\ res = Response("resolve", id, 422, "invalid_result")

\* C11: a resolve of a pending APPROVE request with reject_requires_reason
\* that carries result rejected answers 422 reason_required and leaves the
\* request pending when it has no reason, and completes the request when it
\* has a non-empty reason.
RejectionNeedsReason ==
    [][\A id \in Stored, body \in ResolveBodies, h \in HUMAN_TOKENS :
         (/\ requests[id].status = "pending"
          /\ requests[id].action = "APPROVE"
          /\ requests[id].payload.reject_requires_reason
          /\ body.result = "rejected"
          /\ Resolve(id, body, h)) =>
           IF body.reason \in {Undefined, ""}
             THEN /\ res' = Response("resolve", id, 422, "reason_required")
                  /\ requests' = requests
             ELSE /\ res' = Response("resolve", id, 200, Null)
                  /\ requests'[id].status = "completed"
                  /\ requests'[id].receipt.result = "rejected"
                  /\ requests'[id].receipt.reason = body.reason]_vars

RejectionNeedsReason_Witness ==
    \E id \in Stored :
        /\ requests[id].action = "APPROVE"
        /\ requests[id].payload.reject_requires_reason
        /\ requests[id].status = "pending"
        /\ res = Response("resolve", id, 422, "reason_required")

\* C12 as claimed: a resolve and a cancel of an expired request are both
\* answered with the error expired, and change nothing.
ExpiredConflictIsDistinct ==
    [][\A id \in Stored :
         (/\ requests[id].status = "expired"
          /\ res' /= res
          /\ res'.op \in {"resolve", "cancel"}
          /\ res'.id = id) =>
           /\ res'.status = 409 /\ res'.error = "expired"
           /\ requests' = requests]_vars

\* C12 as amended: a resolve of an expired request is answered 409 with the
\* error expired, a cancel of it 409 with the error conflict, and neither
\* changes the stored request.
ExpiredConflictByOperation ==
    [][\A id \in Stored :
         (/\ requests[id].status = "expired"
          /\ res' /= res
          /\ res'.op \in {"resolve", "cancel"}
          /\ res'.id = id) =>
           /\ res'.status = 409
           /\ res'.error = IF res'.op = "resolve" THEN "expired" ELSE "conflict"
           /\ requests' = requests
           /\ published' = published]_vars

ExpiredConflictByOperation_Witness ==
    \E id \in Stored :
        /\ requests[id].status = "expired"
        /\ res = Response("cancel", id, 409, "conflict")

\* C13: every stored DECIDE request that has a default_option has it among
\* its options (a create with any other default_option stores nothing).
DefaultOptionIsAnOption ==
    \A id \in Stored :
        (requests[id].action = "DECIDE" /\ requests[id].payload.default_option /= Undefined) =>
          Includes(requests[id].payload.options, requests[id].payload.default_option)

\* C19: the evidence hash of every stored receipt is the digest of that
\* receipt's own request_id, result and completed_at with the server secret.
EvidenceHashMatchesReceipt ==
    \A id \in Stored :
        HasReceipt(requests[id]) =>
          requests[id].receipt.evidence_hash =
            generateEvidenceHash(requests[id].receipt.request_id,
                                 requests[id].receipt.result,
                                 requests[id].receipt.completed_at)

\* C20 as claimed: the duration_seconds of every stored receipt is the whole
\* seconds (floor) between created_at and completed_at.
DurationIsFloor ==
    \A id \in Stored :
        HasReceipt(requests[id]) =>
          requests[id].receipt.duration_seconds =
            (requests[id].receipt.completed_at - requests[id].created_at) \div TicksPerSecond

\* C20 as amended: the duration_seconds of a receipt written by resolve is the
\* time between created_at and completed_at rounded to the nearest second,
\* halves upward; that of a receipt written by the timeout callback is the
\* request's timeout_seconds.
DurationIsRoundedOrTimeout ==
    \A id \in Stored :
        HasReceipt(requests[id]) =>
          LET r == requests[id].receipt
              d == r.completed_at - requests[id].created_at
          IN  IF r.completed_by = "system"
                THEN r.duration_seconds = requests[id].timeout_seconds
                ELSE /\ 2 * TicksPerSecond * r.duration_seconds <= 2 * d + TicksPerSecond
                     /\ 2 * d + TicksPerSecond < 2 * TicksPerSecond * (r.duration_seconds + 1)

DurationIsRoundedOrTimeout_Witness ==
    \E id \in Stored :
        /\ HasReceipt(requests[id])
        /\ requests[id].receipt.completed_by \in HUMAN_TOKENS
        /\ requests[id].receipt.completed_at - requests[id].created_at = 1
        /\ requests[id].receipt.duration_seconds = 1

----------------------------------------------------------------------------
(* Properties of the notifications *)

LastPublished == published[Len(published)]

\* C15: a step publishes an event exactly when it changes the status of a
\* stored request; the one event it publishes names that request, carries its
\* new stored status, which is completed, expired, cancelled or failed, and
\* the stored receipt when there is one.
PublishedIffCommitted ==
    [][LET changed == {id \in Stored : requests'[id].status /= requests[id].status} IN
       IF changed = {}
         THEN published' = published
         ELSE \E id \in changed :
                /\ published' = Append(published, LastPublished')
                /\ LastPublished'.request_id = id
                /\ LastPublished'.event = requests'[id].status
                /\ LastPublished'.event \in {"completed", "expired", "cancelled", "failed"}
                /\ HasReceipt(requests'[id]) =>
                     LastPublished'.receipt = requests'[id].receipt]_vars

PublishedIffCommitted_Witness ==
    \E id \in Stored :
        /\ requests[id].status = "expired"
        /\ published = <<[request_id |-> id, event |-> "expired", receipt |-> NoReceipt]>>
        /\ res = Response("resolve", id, 409, "expired")

LateSubscriberGetsReceipt ==
    [][\A w \in Sockets, id \in Stored :
         (/\ w \notin DOMAIN sockets
          /\ w \in DOMAIN sockets'
          /\ sockets'[w].request_id = id
          /\ requests[id].status = "completed") =>
           sockets'[w].frames = <<[event |-> "completed", receipt |-> requests[id].receipt]>>]_vars

LateSubscriberGetsReceipt_Witness ==
    \E id \in Stored, w \in DOMAIN sockets :
        /\ requests[id].status = "completed"
        /\ Len(published) = 1
        /\ res = Response("connect", id, 101, Null)
        /\ sockets[w].request_id = id
        /\ sockets[w].frames = <<[event |-> "completed", receipt |-> requests[id].receipt]>>

----------------------------------------------------------------------------
(* Properties of the stored fields and of the listings *)

\* C14: every stored request has its action, role, priority and fallback in
\* the four enumerations of the data model and a timeout_seconds of at least 0.
StoredFieldsAreValid ==
    \A id \in Stored :
      /\ requests[id].action \in VALID_ACTIONS
      /\ requests[id].role \in VALID_ROLES
      /\ requests[id].priority \in VALID_PRIORITIES
      /\ requests[id].timeout_seconds >= 0
      /\ requests[id].fallback \in VALID_FALLBACKS

\* C18: the requests of an inbox response are in ascending order of the rank
\* critical 0, high 1, normal 2, low 3, and among equal priorities in
\* descending order of created_at.
InboxIsSortedByPriority ==
    res.op = "inbox" =>
      \A i, j \in 1..Len(listed) :
        i < j =>
          \/ priorityOrder[listed[i].priority] < priorityOrder[listed[j].priority]
          \/ /\ listed[i].priority = listed[j].priority
             /\ listed[i].created_at >= listed[j].created_at

----------------------------------------------------------------------------
(* Properties of error handling and isolation *)

\* the status codes of the caller errors: invalid action, role or payload and
\* missing result (400), not found (404), invalid result and reason required (422)
CallerErrors == {400, 404, 422}

\* C21: a call answered with a caller error (a create rejected for its action,
\* role or payload; a resolve rejected as not found, missing result, invalid
\* result or reason required; a cancel rejected as not found) leaves the
\* requests, the timers and every subscriber's frames as they were and
\* publishes no event.
CallerErrorMutatesNothing ==
    [][(res' /= res /\ res'.status \in CallerErrors) =>
         UNCHANGED <<requests, timers, published, inserted, wsSubscriptions, sockets,
                     delegationRules>>]_vars

CallerErrorMutatesNothing_Witness ==
    \E id \in Stored :
        /\ res = Response("resolve", id, 422, "invalid_result")
        /\ requests[id].action = "DECIDE"
        /\ requests[id].status = "pending"
        /\ ~HasReceipt(requests[id])
        /\ id \in DOMAIN timers
        /\ published = <<>>

\* C22: every completed DECIDE request has a receipt whose result is one of
\* the request's payload.options, whether a human resolve or the timeout
\* default completed it.
CompletedDecideResultIsAnOption ==
    \A id \in Stored :
        (requests[id].action = "DECIDE" /\ requests[id].status = "completed") =>
          /\ HasReceipt(requests[id])
          /\ Includes(requests[id].payload.options, requests[id].receipt.result)

----------------------------------------------------------------------------
(* Properties of the delegation rules *)

IsPrefix(s, t) == Len(s) <= Len(t) /\ \A i \in 1..Len(s) : s[i] = t[i]

\* C28: the rule list only grows at its end (every change appends one rule,
\* so each earlier list is a prefix of every later one), and a read returns
\* the whole list in insertion order.
RulesAreAppendOnly ==
    /\ [](res.op = "get_rules" => listed = delegationRules)
    /\ [][/\ IsPrefix(delegationRules, delegationRules')
          /\ Len(delegationRules') <= Len(delegationRules) + 1]_vars

RulesAreAppendOnly_Witness ==
    /\ res.op = "get_rules"
    /\ Len(listed) >= 2
    /\ listed[1] /= listed[2]

\* a rule matches a request: same action, and the rule's tag is carried in the
\* request's metadata or the rule's project is the request's project
RuleMatches(rule, request) ==
    /\ rule.action = request.action
    /\ \/ /\ rule.tag /= Undefined
          /\ "tag" \in DOMAIN request.metadata
          /\ request.metadata.tag = rule.tag
       \/ /\ rule.project_id /= Undefined
          /\ rule.project_id = request.project_id

MatchingRules(request) ==
    {i \in 1..Len(delegationRules) : RuleMatches(delegationRules[i], request)}

FirstMatch(request) ==
    CHOOSE i \in MatchingRules(request) : \A j \in MatchingRules(request) : i <= j

\* the target a stored request records, Undefined when it records none
RoutedTo(request) ==
    IF "delegate_to" \in DOMAIN request THEN request.delegate_to ELSE Undefined

\* C23: a request created with role delegate while a rule matches it is routed
\* to the delegate of the first matching rule in list order.
DelegateRoutedByFirstRule ==
    \A id \in Stored :
        (/\ requests[id].role = "delegate"
         /\ res = Response("create", id, 201, Null)
         /\ MatchingRules(requests[id]) /= {}) =>
          RoutedTo(requests[id]) = delegationRules[FirstMatch(requests[id])].delegate_to

----------------------------------------------------------------------------
(* Properties of two requests side by side *)

\* C24: a step taken for one request id (a resolve, a cancel or a timer fire
\* on it, or the creation of it) leaves every request stored under another id
\* exactly as it was, in every field.
OtherRequestsUntouched ==
    [][\A id \in Stored :
         res'.id /= id => (id \in DOMAIN requests' /\ requests'[id] = requests[id])]_vars

OtherRequestsUntouched_Witness ==
    \E a, b \in Stored :
        /\ a /= b
        /\ requests[a].status = "completed"
        /\ requests[a].receipt.completed_by = "system"
        /\ requests[b].status = "pending"
        /\ requests[b].timeout_seconds > 0
        /\ res = Response("timeout", a, 0, Null)

----------------------------------------------------------------------------
(* Properties of the subscriber mapping *)

\* C25: a channel that has closed is in no subscriber set (the close removes
\* it from the set of its request id), no request id maps to an empty set,
\* every member of a set is a connection made for that request id, and a
\* channel that is not open receives no further frame.
SubscribersAreLive ==
    /\ [](\A id \in DOMAIN wsSubscriptions :
            /\ wsSubscriptions[id] /= <<>>
            /\ \A ws \in Range(wsSubscriptions[id]) :
                 /\ ws \in DOMAIN sockets
                 /\ sockets[ws].readyState /= 3
                 /\ sockets[ws].request_id = id)
    /\ [][\A ws \in DOMAIN sockets :
            sockets[ws].readyState /= OPEN => sockets'[ws].frames = sockets[ws].frames]_vars

SubscribersAreLive_Witness ==
    \E a, b \in DOMAIN sockets, id \in Stored :
        /\ sockets[a].readyState = 3
        /\ sockets[a].request_id = id
        /\ Subscribers(id) = <<b>>
        /\ Len(sockets[b].frames) > Len(sockets[a].frames)

----------------------------------------------------------------------------
(* Properties of the agent listing *)

Matches(r, query) ==
    /\ Truthy(query.agent_id) => r.agent_id = query.agent_id
    /\ Truthy(query.project_id) => r.project_id = query.project_id
    /\ Truthy(query.status) => r.status = query.status

Matching(query) == {requests[id] : id \in {i \in Stored : Matches(requests[i], query)}}

NewestFirst(seq) ==
    \A i, j \in 1..Len(seq) : i < j => seq[i].created_at >= seq[j].created_at

\* C26: the agent listing returns exactly the stored requests that match all
\* the supplied filters, each once and none omitted, ordered by created_at
\* descending.
ListIsEveryMatch ==
    res.op = "list" =>
      /\ Range(listed) = Matching(listQuery)
      /\ Len(listed) = Cardinality(Matching(listQuery))
      /\ NewestFirst(listed)

\* C26 as amended: the listing holds only matching requests, each once,
\* ordered by created_at descending; it is cut to the first limit of them
\* (limit defaults to 20; a negative limit drops that many from the end), and
\* no omitted match is newer than a listed one.
ListIsNewestMatchesUpToLimit ==
    res.op = "list" =>
      LET n == Cardinality(Matching(listQuery))
          cut == IF limitOf(listQuery) >= 0 THEN limitOf(listQuery)
                                            ELSE n + limitOf(listQuery)
      IN  /\ Range(listed) \subseteq Matching(listQuery)
          /\ Len(listed) = Cardinality(Range(listed))
          /\ NewestFirst(listed)
          /\ Len(listed) = IF cut > n THEN n ELSE IF cut < 0 THEN 0 ELSE cut
          /\ \A r \in Matching(listQuery) \ Range(listed), l \in Range(listed) :
               r.created_at <= l.created_at

ListIsNewestMatchesUpToLimit_Witness ==
    \E a, b \in Stored :
        /\ res.op = "list"
        /\ listQuery.limit = "1"
        /\ listed = <<requests[b]>>
        /\ requests[a].created_at < requests[b].created_at
        /\ requests[a].status = requests[b].status
        /\ requests[a].agent_id = requests[b].agent_id
        /\ requests[a].project_id = requests[b].project_id

----------------------------------------------------------------------------
(* Properties of the expiry instant and of termination *)

\* C27: a stored request with timeout_seconds > 0 has expires_at equal to
\* created_at plus timeout_seconds, and its timer, while armed, is due at that
\* instant; a request with no timeout has a null expires_at and no timer.
ExpiresAtIsCreatedPlusTimeout ==
    \A id \in Stored :
        IF requests[id].timeout_seconds > 0
          THEN /\ requests[id].expires_at =
                    requests[id].created_at + requests[id].timeout_seconds * TicksPerSecond
               /\ id \in DOMAIN timers => timers[id] = requests[id].expires_at
          ELSE /\ requests[id].expires_at = Null
               /\ id \notin DOMAIN timers

Terminal == {"completed", "expired", "cancelled", "failed"}

\* C29: when armed timers that are due get to fire, every request stored with
\* timeout_seconds > 0 and fallback fail or default eventually has a terminal
\* status, whether or not a human resolves or cancels it.
TimedRequestTerminates ==
    \A id \in RequestIds :
        (/\ id \in Stored
         /\ requests[id].timeout_seconds > 0
         /\ requests[id].fallback \in {"fail", "default"})
          ~> (id \in Stored /\ requests[id].status \in Terminal)

TimedRequestTerminates_Witness ==
    \E id \in Stored :
        /\ requests[id].timeout_seconds > 0
        /\ requests[id].fallback = "fail"
        /\ requests[id].status \in Terminal
        /\ res = Response("timeout", id, 0, Null)
        /\ published /= <<>>

----------------------------------------------------------------------------
(* Properties of the set of statuses in use *)

----------------------------------------------------------------------------
(* Properties of the frames a channel receives *)

\* C31: a channel receives at most one frame in its lifetime, and that frame
\* is an event of the request id it subscribed to: the event of the one
\* transition when it subscribed before it, the catch-up frame when it
\* subscribed after the completion; no later operation adds a second frame.
AtMostOneFrame ==
    /\ [](\A ws \in DOMAIN sockets :
            /\ Len(sockets[ws].frames) <= 1
            /\ Len(sockets[ws].frames) = 1 =>
                 /\ sockets[ws].request_id \in Stored
                 /\ sockets[ws].frames[1].event = requests[sockets[ws].request_id].status)
    /\ [][\A ws \in DOMAIN sockets :
            sockets[ws].frames /= <<>> => sockets'[ws].frames = sockets[ws].frames]_vars

AtMostOneFrame_Witness ==
    \E a, b \in DOMAIN sockets, id \in Stored :
        /\ Subscribers(id) = <<a, b>>
        /\ sockets[a].readyState = OPEN
        /\ sockets[b].readyState = OPEN
        /\ Len(sockets[a].frames) = 1
        /\ Len(sockets[b].frames) = 1
        /\ HasReceipt(requests[id])
        /\ requests[id].receipt.completed_by = "system"
        /\ res = Response("cancel", id, 409, "conflict")

====
